---- MODULE Spec2Model ----
(***************************************************************************)
(* Verification model of the cho-python-sample scripts.                    *)
(*                                                                         *)
(* The repository is a set of independent scripts; each script has its own *)
(* specification over its own variables:                                   *)
(*   SpecUR     universal_robots_comm_test.py (RTDE exchange with robot)   *)
(*   SpecAffine 4x4 Matrix_from_XYZRxRyRz_ZYZ.py (check and save poses)    *)
(*   SpecLive   capture_2d_live_stream.py (2D live stream)                 *)
(*   SpecPose   pose_estimation_test.py (plane fit and picking pose)       *)
(*   SpecStitch2 stitch_via_local_point_cloud_registration.py              *)
(*   SpecShoes  stitch_via_local_point_cloud_registration_shoes.py         *)
(*   SpecContinuous stitch_continuously_capture_visulaize.py               *)
(*   SpecCal    multicam_cal.py (multi-camera calibration and stitching)   *)
(*   SpecLiveStreams capture_2d_live_stream.py and                         *)
(*              capture_2d_live_stream_before_sdk214.py                    *)
(* Vendor libraries (rtde, zivid, open3d, numpy.linalg.svd, keyboard) are  *)
(* the environment: what they return is a nondeterministic choice.         *)
(***************************************************************************)
EXTENDS Integers, Sequences, FiniteSets, TLC

VARIABLES
    pc,           \* position of the running script
    raised,       \* message of the exception that ended the script, or "none"
    trace,        \* UR: calls made on con (and the csv write), in order
    robot_state,  \* UR: _comm_test's robot_state
    input_data,   \* UR: the input package (registers 64 and 65)
    log_data,     \* UR: _comm_test's log_data (loop_count of every entry)
    csv_file,     \* UR: ur_rtde_joint_log.csv
    exit_cause,   \* UR: how the main loop was left
    yaml_files,   \* Affine: the dataset directory, pos01.yaml .. pos03.yaml
    yaml_before,  \* Affine: the dataset directory when the script started
    pose_checks,  \* Affine: what zivid.calibration.Pose did, call by call
    i_value,      \* Affine: _main's loop index i
    camera_model, \* Live: camera.info.model
    sampling_pixel, \* Live: settings.sampling.pixel
    pixel_before, \* Live: settings.sampling.pixel before _set_sampling_pixel
    captures,     \* Live: number of camera.capture_2d calls so far
    frames_held,  \* Live: frames captured and not yet released
    key,          \* Live: what cv2.waitKey returned last
    xyz,          \* Pose: the caller's point-cloud array
    roi_args,     \* Pose: the arguments _roi_between_two_spheres was called with
    mask_region,  \* Pose: what _roi_between_two_spheres returned
    point_in_plane, \* Pose: _plane_fit's point_in_plane
    scatter,      \* Pose: _plane_fit's M
    u_matrix,     \* Pose: the U matrix given to _get_transformation_matrix
    point,        \* Pose: the point given to _get_transformation_matrix
    transform,    \* Pose: what _get_transformation_matrix returned
    z_rotation,   \* Pose: the angle given to the display functions, in quarter turns
    u_matrix_modified, \* Pose: the modified U matrix given to ..._on_two_points
    coord_frames, \* Pose: the poses of the coordinate frames last displayed
    picking_pose, \* Pose: the poses returned to main, in order
    clouds,       \* Stitch: the unorganized point clouds loaded or captured
    lpcr,         \* Stitch: the voxel-downsampled copies made for registration
    registrations, \* Stitch: the calls of local_point_cloud_registration
    stitched,     \* Stitch: the stitched (final) point cloud
    displayed,    \* Stitch: the clouds shown so far, in order
    i_capture,    \* Stitch: the loop variable of the stitching loop
    exported,     \* Stitch: the files written by export_unorganized_point_cloud
    previous_to_current_point_cloud_transform, \* Stitch: the stored transform
    zdf_files,    \* Cal: the indices XX of the imgXX.zdf files that exist
    valid_files,  \* Cal: those of them whose feature-point detection is valid
    test_files,   \* Cal: the indices XX of the img_test_XX.zdf files that exist
    idata,        \* Cal: the file counter
    calibration_inputs, \* Cal: the detection results, by file index
    results,      \* Cal: what calibrate_multi_camera returned
    transforms,   \* Cal: the local transforms, unbound until assigned
    i_transform,  \* Cal: the loop variable i of the stitching loop
    stitched_xyz, \* Cal: the local stitched_xyz, unbound until assigned
    stitched_point_cloud \* Cal: the points of the open3d point cloud

urVars == <<trace, robot_state, input_data, log_data, csv_file, exit_cause>>

affineVars == <<yaml_files, yaml_before, pose_checks, i_value>>

liveVars == <<camera_model, sampling_pixel, pixel_before, captures, frames_held, key>>

pickVars == <<z_rotation, u_matrix_modified, coord_frames, picking_pose>>

poseVars ==
    <<xyz, roi_args, mask_region, point_in_plane, scatter, u_matrix, point, transform,
      pickVars>>

stitchLoopVars == <<i_capture, exported, previous_to_current_point_cloud_transform>>

stitchVars == <<clouds, lpcr, registrations, stitched, displayed, stitchLoopVars>>

calVars == <<zdf_files, valid_files, test_files, idata, calibration_inputs, results,
             transforms, i_transform, stitched_xyz, stitched_point_cloud>>

vars == <<pc, raised, urVars, affineVars, liveVars, poseVars, stitchVars, calVars>>

\* what each script leaves alone: the variables of the other scripts
nonUR == <<affineVars, liveVars, poseVars, stitchVars, calVars>>

nonAffine == <<urVars, liveVars, poseVars, stitchVars, calVars>>

nonLive == <<urVars, affineVars, poseVars, stitchVars, calVars>>

nonPose == <<urVars, affineVars, liveVars, stitchVars, calVars>>

nonStitch == <<urVars, affineVars, liveVars, poseVars, calVars>>

nonCal == <<urVars, affineVars, liveVars, poseVars, stitchVars>>

(***************************************************************************)
(* Bounds                                                                  *)
(***************************************************************************)
\* con.receive() is called at most MaxReads times in one run
MaxReads == 4
\* the robot reports loop counts -1 .. MaxLoopCount
MaxLoopCount == 1
\* the live stream is followed for at most MaxCaptures captures
MaxCaptures == 3
\* point coordinates are NaN or 0 .. MaxCoord
MaxCoord == 1
\* the sphere radii are 0 .. MaxRadius
MaxRadius == 2
\* the entries of the U matrix are -MaxAxis .. MaxAxis
MaxAxis == 1
\* a loaded point cloud holds 0 .. MaxPoints points
MaxPoints == 2
\* a voxel downsampling that drops no voxel merges away at most MaxMerged points
MaxMerged == 1
\* the shoes script reads 01.zdf .. 05.zdf
NumShoeFiles == 5
\* at most MaxFailures registrations of the continuous loop do not converge
MaxFailures == 1
\* the files imgXX.zdf and img_test_XX.zdf that may exist are 01 .. MaxFiles
MaxFiles == 3
\* the continuous loop is for number_of_captures in range(20)
NumCaptures == 20

(***************************************************************************)
(* universal_robots_comm_test.py                                           *)
(***************************************************************************)
LoopCounts == -1 .. MaxLoopCount

\* the two registers of the output recipe the script reads
RobotStates == [output_bit_register_64 : BOOLEAN, output_int_register_24 : LoopCounts]

\* robot_state before the first assignment (never read)
Unbound == [output_bit_register_64 |-> FALSE, output_int_register_24 |-> 0]

\* one entry of the trace: the call, its truth value as the script tests it,
\* the bit registers 64/65 and the int register 24 it carried
Call(op, ret) ==
    [op |-> op, ret |-> ret, bit64 |-> FALSE, bit65 |-> FALSE, int24 |-> 0]

Received(s) ==
    [op |-> "receive", ret |-> TRUE, bit64 |-> s.output_bit_register_64,
     bit65 |-> FALSE, int24 |-> s.output_int_register_24]

Sent(d) ==
    [op |-> "send", ret |-> TRUE, bit64 |-> d.input_bit_register_64,
     bit65 |-> d.input_bit_register_65, int24 |-> 0]

RECURSIVE Count(_, _)
Count(s, op) ==
    IF s = <<>> THEN 0
    ELSE (IF s[Len(s)].op = op THEN 1 ELSE 0) + Count(SubSeq(s, 1, Len(s) - 1), op)

_loop_count(s) == s.output_int_register_24

\* mutant: the ready test reads the loop-count register instead of bit 64
ReadyForTestWrongRegister(s) == s.output_int_register_24 # -1

_ready_for_test(s) == s.output_bit_register_64

\* _write_robot_state: the registers are set, then the package is sent
_write_robot_state(finish_test, ready_to_record) ==
    /\ input_data' = [input_bit_register_64 |-> finish_test,
                      input_bit_register_65 |-> ready_to_record]
    /\ trace' = Append(trace, Sent(input_data'))

\* _read_robot_state, con.receive() returned a state
ReceiveState(s) ==
    /\ Count(trace, "receive") < MaxReads
    /\ trace' = Append(trace, Received(s))
    /\ robot_state' = s

\* _read_robot_state, con.receive() returned None: the assertion fails
\* mutant: the failed assertion is handled like KeyboardInterrupt
ReceiveNoneCaught ==
    /\ Count(trace, "receive") < MaxReads
    /\ trace' = Append(trace, Call("receive", FALSE))
    /\ pc' = "save_csv"
    /\ raised' = "Not able to receive robot_state"
    /\ UNCHANGED <<robot_state, input_data, log_data, csv_file, exit_cause>>

ReceiveNone ==
    /\ Count(trace, "receive") < MaxReads
    /\ trace' = Append(trace, Call("receive", FALSE))
    /\ pc' = "raised"
    /\ raised' = "Not able to receive robot_state"
    /\ UNCHANGED <<robot_state, input_data, log_data, csv_file, exit_cause>>

\* ---- _initialize_robot_sync ----
Connect ==
    /\ pc = "connect"
    /\ UNCHANGED nonUR
    /\ trace' = Append(trace, Call("connect", TRUE))
    /\ pc' = "negotiate"
    /\ UNCHANGED <<raised, robot_state, input_data, log_data, csv_file, exit_cause>>

\* mutant: the result of the set-up call is not tested
SetupStepUnchecked(at, op, msg, next) ==
    /\ pc = at
    /\ UNCHANGED nonUR
    /\ \E ok \in BOOLEAN : trace' = Append(trace, Call(op, ok))
    /\ pc' = next
    /\ UNCHANGED <<raised, robot_state, input_data, log_data, csv_file, exit_cause>>

\* one tested set-up call: on failure the RuntimeError leaves the function
SetupStep(at, op, msg, next) ==
    /\ pc = at
    /\ UNCHANGED nonUR
    /\ \E ok \in BOOLEAN :
        /\ trace' = Append(trace, Call(op, ok))
        /\ IF ok THEN pc' = next /\ raised' = raised
                 ELSE pc' = "raised" /\ raised' = msg
    /\ UNCHANGED <<robot_state, input_data, log_data, csv_file, exit_cause>>

Negotiate ==
    SetupStep("negotiate", "negotiate_protocol_version", "Protocol do not match",
              "output_setup")

OutputSetup ==
    SetupStep("output_setup", "send_output_setup", "Unable to configure output",
              "input_setup")

InputSetup ==
    /\ pc = "input_setup"
    /\ UNCHANGED nonUR
    /\ trace' = Append(trace, Call("send_input_setup", TRUE))
    /\ pc' = "start"
    /\ UNCHANGED <<raised, robot_state, input_data, log_data, csv_file, exit_cause>>

Start ==
    SetupStep("start", "send_start", "Unable to start synchronization", "init_done")

\* return con, robot_input_data; _main then calls con.send_start() again and
\* ignores what it returns
MainStart ==
    /\ pc = "init_done"
    /\ UNCHANGED nonUR
    /\ \E ok \in BOOLEAN : trace' = Append(trace, Call("send_start", ok))
    /\ pc' = "first_read"
    /\ UNCHANGED <<raised, robot_state, input_data, log_data, csv_file, exit_cause>>

\* ---- _comm_test ----
FirstRead ==
    /\ pc = "first_read"
    /\ UNCHANGED nonUR
    /\ \/ /\ \E s \in RobotStates : ReceiveState(s)
          /\ pc' = "signal_ready"
          /\ UNCHANGED <<raised, input_data, log_data, csv_file, exit_cause>>
       \/ ReceiveNone

SignalReady ==
    /\ pc = "signal_ready"
    /\ UNCHANGED nonUR
    /\ _write_robot_state(FALSE, TRUE)
    /\ pc' = "wait"
    /\ UNCHANGED <<raised, robot_state, log_data, csv_file, exit_cause>>

\* while _ready_for_test(robot_state) == False: robot_state = _read_robot_state(con)
WaitRead ==
    /\ pc = "wait"
    /\ UNCHANGED nonUR
    /\ _ready_for_test(robot_state) = FALSE
    /\ \/ /\ \E s \in RobotStates : ReceiveState(s)
          /\ UNCHANGED <<pc, raised, input_data, log_data, csv_file, exit_cause>>
       \/ ReceiveNone

WaitDone ==
    /\ pc = "wait"
    /\ UNCHANGED nonUR
    /\ _ready_for_test(robot_state) # FALSE
    /\ pc' = "main_loop"
    /\ UNCHANGED <<raised, urVars>>

\* mutant: the loop ends on loop count 0 instead of -1
LoopTestZero ==
    /\ pc = "main_loop"
    /\ UNCHANGED nonUR
    /\ IF _loop_count(robot_state) # 0
          THEN pc' = "read" /\ exit_cause' = exit_cause
          ELSE pc' = "save_csv" /\ exit_cause' = "loop_count"
    /\ UNCHANGED <<raised, trace, robot_state, input_data, log_data, csv_file>>

\* while _loop_count(robot_state) != -1
LoopTest ==
    /\ pc = "main_loop"
    /\ UNCHANGED nonUR
    /\ IF _loop_count(robot_state) # -1
          THEN pc' = "read" /\ exit_cause' = exit_cause
          ELSE pc' = "save_csv" /\ exit_cause' = "loop_count"
    /\ UNCHANGED <<raised, trace, robot_state, input_data, log_data, csv_file>>

LoopRead ==
    /\ pc = "read"
    /\ UNCHANGED nonUR
    /\ \/ /\ \E s \in RobotStates : ReceiveState(s)
          /\ pc' = "log"
          /\ UNCHANGED <<raised, input_data, log_data, csv_file, exit_cause>>
       \/ ReceiveNone

\* log_data.append(log_entry); of the entry the model keeps loop_count
LoopLog ==
    /\ pc = "log"
    /\ UNCHANGED nonUR
    /\ log_data' = Append(log_data, _loop_count(robot_state))
    /\ pc' = "key"
    /\ UNCHANGED <<raised, trace, robot_state, input_data, csv_file, exit_cause>>

\* if keyboard.is_pressed('s')
LoopKey ==
    /\ pc = "key"
    /\ UNCHANGED nonUR
    /\ \E pressed \in BOOLEAN : pc' = IF pressed THEN "write_finish" ELSE "main_loop"
    /\ UNCHANGED <<raised, urVars>>

\* mutant: the break after the stop signal is missing
LoopStopNoBreak ==
    /\ pc = "write_finish"
    /\ UNCHANGED nonUR
    /\ _write_robot_state(TRUE, FALSE)
    /\ pc' = "main_loop"
    /\ exit_cause' = exit_cause
    /\ UNCHANGED <<raised, robot_state, log_data, csv_file>>

\* _write_robot_state(con, input_data, finish_test=True, ready_to_record=False); break
LoopStop ==
    /\ pc = "write_finish"
    /\ UNCHANGED nonUR
    /\ _write_robot_state(TRUE, FALSE)
    /\ pc' = "save_csv"
    /\ exit_cause' = "s_key"
    /\ UNCHANGED <<raised, robot_state, log_data, csv_file>>

TryBlock == {"main_loop", "read", "log", "key", "write_finish"}

\* except KeyboardInterrupt: Ctrl+C anywhere inside the try block
KeyboardInterrupt ==
    /\ pc \in TryBlock
    /\ UNCHANGED nonUR
    /\ pc' = "save_csv"
    /\ exit_cause' = "KeyboardInterrupt"
    /\ UNCHANGED <<raised, trace, robot_state, input_data, log_data, csv_file>>

\* df.to_csv("ur_rtde_joint_log.csv", index=False)
SaveCsv ==
    /\ pc = "save_csv"
    /\ UNCHANGED nonUR
    /\ csv_file' = [written |-> TRUE, rows |-> log_data]
    /\ trace' = Append(trace, Call("to_csv", TRUE))
    /\ pc' = "write_final"
    /\ UNCHANGED <<raised, robot_state, input_data, log_data, exit_cause>>

\* mutant: the registers are not reset before the pause
WriteFinalSkipped ==
    /\ pc = "write_final"
    /\ UNCHANGED nonUR
    /\ pc' = "pause"
    /\ UNCHANGED <<raised, urVars>>

\* _write_robot_state(con, input_data, finish_test=False, ready_to_record=False)
WriteFinal ==
    /\ pc = "write_final"
    /\ UNCHANGED nonUR
    /\ _write_robot_state(FALSE, FALSE)
    /\ pc' = "pause"
    /\ UNCHANGED <<raised, robot_state, log_data, csv_file, exit_cause>>

SendPause ==
    /\ pc = "pause"
    /\ UNCHANGED nonUR
    /\ \E ok \in BOOLEAN : trace' = Append(trace, Call("send_pause", ok))
    /\ pc' = "disconnect"
    /\ UNCHANGED <<raised, robot_state, input_data, log_data, csv_file, exit_cause>>

Disconnect ==
    /\ pc = "disconnect"
    /\ UNCHANGED nonUR
    /\ trace' = Append(trace, Call("disconnect", TRUE))
    /\ pc' = "done"
    /\ UNCHANGED <<raised, robot_state, input_data, log_data, csv_file, exit_cause>>

\* the variables of the scripts that are not running
IdleAffine ==
    /\ yaml_files = <<>>
    /\ yaml_before = <<>>
    /\ pose_checks = <<>>
    /\ i_value = 0

IdleLive ==
    /\ camera_model = "none"
    /\ sampling_pixel = "None"
    /\ pixel_before = "None"
    /\ captures = 0
    /\ frames_held = 0
    /\ key = -1

\* a local name that is not bound yet
UnboundLocal == [bound |-> FALSE, v |-> <<>>]

Bound(value) == [bound |-> TRUE, v |-> value]

IdleCal ==
    /\ zdf_files = {}
    /\ valid_files = {}
    /\ test_files = {}
    /\ idata = 1
    /\ calibration_inputs = <<>>
    /\ results = "none"
    /\ transforms = UnboundLocal
    /\ i_transform = 0
    /\ stitched_xyz = UnboundLocal
    /\ stitched_point_cloud = <<>>

IdleStitch ==
    /\ clouds = <<>>
    /\ lpcr = <<>>
    /\ registrations = <<>>
    /\ stitched = <<>>
    /\ displayed = <<>>
    /\ i_capture = 0
    /\ exported = <<>>
    /\ previous_to_current_point_cloud_transform = 0

IdlePose ==
    /\ xyz = <<>>
    /\ roi_args = <<>>
    /\ mask_region = <<>>
    /\ point_in_plane = <<>>
    /\ scatter = <<>>
    /\ u_matrix = <<>>
    /\ point = <<>>
    /\ transform = <<>>
    /\ z_rotation = 0
    /\ u_matrix_modified = <<>>
    /\ coord_frames = <<>>
    /\ picking_pose = <<>>

InitUR ==
    /\ IdleAffine
    /\ IdleLive
    /\ IdlePose
    /\ IdleStitch
    /\ IdleCal
    /\ pc = "connect"
    /\ raised = "none"
    /\ trace = <<>>
    /\ robot_state = Unbound
    /\ input_data = [input_bit_register_64 |-> FALSE, input_bit_register_65 |-> FALSE]
    /\ log_data = <<>>
    /\ csv_file = [written |-> FALSE, rows |-> <<>>]
    /\ exit_cause = "none"

NextUR ==
    \/ Connect
    \/ Negotiate
    \/ OutputSetup
    \/ InputSetup
    \/ Start
    \/ MainStart
    \/ FirstRead
    \/ SignalReady
    \/ WaitRead
    \/ WaitDone
    \/ LoopTest
    \/ LoopRead
    \/ LoopLog
    \/ LoopKey
    \/ LoopStop
    \/ KeyboardInterrupt
    \/ SaveCsv
    \/ WriteFinal
    \/ SendPause
    \/ Disconnect

SpecUR == InitUR /\ [][NextUR]_vars

(***************************************************************************)
(* 4x4 Matrix_from_XYZRxRyRz_ZYZ.py                                        *)
(***************************************************************************)
\* len(value): the poses _main converts, saved as pos01.yaml .. pos03.yaml
NumPoses == 3

\* what a yaml file holds: 0 when the file does not exist, k for the transform
\* built from value[k-1]
YamlContents == 0 .. NumPoses

\* for i in range(len(value)): transform is built, save_dir is pos{i+1:02d}.yaml
AffineLoop ==
    /\ pc = "build"
    /\ UNCHANGED nonAffine
    /\ pc' = IF i_value < NumPoses THEN "assert_affine" ELSE "done"
    /\ UNCHANGED <<raised, affineVars>>

\* mutant: the RuntimeError of the Pose constructor is swallowed
AssertAffineSwallowed ==
    /\ pc = "assert_affine"
    /\ UNCHANGED nonAffine
    /\ \E ok \in BOOLEAN : pose_checks' = Append(pose_checks, ok)
    /\ pc' = "save"
    /\ UNCHANGED <<raised, yaml_files, yaml_before, i_value>>

\* assert_affine: zivid.calibration.Pose(matrix) either constructs or raises
\* RuntimeError, which is re-raised as RuntimeError("matrix is not affine")
AssertAffine ==
    /\ pc = "assert_affine"
    /\ UNCHANGED nonAffine
    /\ \E ok \in BOOLEAN :
        /\ pose_checks' = Append(pose_checks, ok)
        /\ IF ok THEN pc' = "save" /\ raised' = raised
                 ELSE pc' = "raised" /\ raised' = "matrix is not affine"
    /\ UNCHANGED <<yaml_files, yaml_before, i_value>>

\* zivid.Matrix4x4(matrix).save(yaml_path), then the next i
SaveMatrix ==
    /\ pc = "save"
    /\ UNCHANGED nonAffine
    /\ yaml_files' = [yaml_files EXCEPT ![i_value + 1] = i_value + 1]
    /\ i_value' = i_value + 1
    /\ pc' = "build"
    /\ UNCHANGED <<raised, yaml_before, pose_checks>>

IdleUR ==
    /\ trace = <<>>
    /\ robot_state = Unbound
    /\ input_data = [input_bit_register_64 |-> FALSE, input_bit_register_65 |-> FALSE]
    /\ log_data = <<>>
    /\ csv_file = [written |-> FALSE, rows |-> <<>>]
    /\ exit_cause = "none"

\* the dataset directory may hold files of earlier runs
InitAffine ==
    /\ IdleUR
    /\ IdleLive
    /\ IdlePose
    /\ IdleStitch
    /\ IdleCal
    /\ pc = "build"
    /\ raised = "none"
    /\ yaml_files \in [1 .. NumPoses -> YamlContents]
    /\ yaml_before = yaml_files
    /\ pose_checks = <<>>
    /\ i_value = 0

NextAffine ==
    \/ AffineLoop
    \/ AssertAffine
    \/ SaveMatrix

SpecAffine == InitAffine /\ [][NextAffine]_vars

(***************************************************************************)
(* capture_2d_live_stream.py                                               *)
(***************************************************************************)
BlueSubsampleModels ==
    {"zividTwo", "zividTwoL100", "zivid2PlusM130", "zivid2PlusM60", "zivid2PlusL110"}

By2x2Models == {"zivid2PlusMR130", "zivid2PlusMR60", "zivid2PlusLR110"}

\* members of zivid.CameraInfo.Model the function has no branch for
OtherModels == {"zividOnePlusSmall", "zividOnePlusMedium", "zividOnePlusLarge"}

CameraModels == BlueSubsampleModels \cup By2x2Models \cup OtherModels

\* values of settings.sampling.pixel ("None": not set)
PixelValues == {"None", "all", "blueSubsample2x2", "redSubsample2x2", "by2x2"}

\* values of cv2.waitKey(20): no key, ESC, ESC with a modifier bit above the
\* low byte, 's'
KeyCodes == {-1, 27, 27 + 256, 115}

\* mutant: the MR/LR models are given the blue subsampling as well
SetSamplingPixelAllBlue ==
    /\ pc = "set_sampling_pixel"
    /\ UNCHANGED nonLive
    /\ IF camera_model \in BlueSubsampleModels \cup By2x2Models
          THEN /\ sampling_pixel' = "blueSubsample2x2"
               /\ pc' = "capture"
               /\ raised' = raised
          ELSE /\ sampling_pixel' = sampling_pixel
               /\ pc' = "raised"
               /\ raised' = "Unhandled enum value"
    /\ UNCHANGED <<camera_model, pixel_before, captures, frames_held, key>>

\* _set_sampling_pixel(settings, camera)
_set_sampling_pixel ==
    /\ pc = "set_sampling_pixel"
    /\ UNCHANGED nonLive
    /\ IF camera_model \in BlueSubsampleModels
          THEN /\ sampling_pixel' = "blueSubsample2x2"
               /\ pc' = "capture"
               /\ raised' = raised
          ELSE IF camera_model \in By2x2Models
          THEN /\ sampling_pixel' = "by2x2"
               /\ pc' = "capture"
               /\ raised' = raised
          ELSE /\ sampling_pixel' = sampling_pixel
               /\ pc' = "raised"
               /\ raised' = "Unhandled enum value"
    /\ UNCHANGED <<camera_model, pixel_before, captures, frames_held, key>>

\* with camera.capture_2d(settings) as frame_2d:
Capture2D ==
    /\ pc = "capture"
    /\ UNCHANGED nonLive
    /\ captures < MaxCaptures
    /\ captures' = captures + 1
    /\ frames_held' = frames_held + 1
    /\ pc' = "show"
    /\ UNCHANGED <<raised, camera_model, sampling_pixel, pixel_before, key>>

\* mutant: the key is compared with 27 without the mask 0xFF
ShowAndWaitKeyUnmasked ==
    /\ pc = "show"
    /\ UNCHANGED nonLive
    /\ \E k \in KeyCodes :
        /\ key' = k
        /\ pc' = IF k = 27 THEN "done" ELSE "capture"
    /\ frames_held' = frames_held - 1
    /\ UNCHANGED <<raised, camera_model, sampling_pixel, pixel_before, captures>>

\* cv2.imshow, then if cv2.waitKey(20) & 0xFF == 27: break; leaving the with
\* block on either way releases the frame
ShowAndWaitKey ==
    /\ pc = "show"
    /\ UNCHANGED nonLive
    /\ \E k \in KeyCodes :
        /\ key' = k
        /\ pc' = IF k % 256 = 27 THEN "done" ELSE "capture"
    /\ frames_held' = frames_held - 1
    /\ UNCHANGED <<raised, camera_model, sampling_pixel, pixel_before, captures>>

\* _set_sampling_pixel is given any camera model and settings with any
\* sampling.pixel (a fresh zivid.Settings() has it unset, "None")
InitLive ==
    /\ IdleUR
    /\ IdleAffine
    /\ IdlePose
    /\ IdleStitch
    /\ IdleCal
    /\ pc = "set_sampling_pixel"
    /\ raised = "none"
    /\ camera_model \in CameraModels
    /\ sampling_pixel \in PixelValues
    /\ pixel_before = sampling_pixel
    /\ captures = 0
    /\ frames_held = 0
    /\ key = -1

NextLive ==
    \/ _set_sampling_pixel
    \/ Capture2D
    \/ ShowAndWaitKey

SpecLive == InitLive /\ [][NextLive]_vars

\* capture_2d_live_stream_before_sdk214.py: _main builds settings_2d and
\* enters the same loop with camera.capture(settings_2d); it has no Settings
\* object and no _set_sampling_pixel, so any camera model reaches the loop
InitLiveBefore ==
    /\ IdleUR
    /\ IdleAffine
    /\ IdlePose
    /\ IdleStitch
    /\ IdleCal
    /\ pc = "capture"
    /\ raised = "none"
    /\ camera_model \in CameraModels
    /\ sampling_pixel = "None"
    /\ pixel_before = "None"
    /\ captures = 0
    /\ frames_held = 0
    /\ key = -1

\* either of the two live-stream scripts is started
InitLiveStreams == InitLive \/ InitLiveBefore

SpecLiveStreams == InitLiveStreams /\ [][NextLive]_vars

(***************************************************************************)
(* pose_estimation_test.py                                                 *)
(***************************************************************************)
\* a floating-point value: NaN, or a number (the model's numbers are integers)
NaN == [nan |-> TRUE, v |-> 0]

F(n) == [nan |-> FALSE, v |-> n]

\* arithmetic with NaN: a NaN operand gives NaN
FAdd(a, b) == IF a.nan \/ b.nan THEN NaN ELSE F(a.v + b.v)

FSub(a, b) == IF a.nan \/ b.nan THEN NaN ELSE F(a.v - b.v)

FMul(a, b) == IF a.nan \/ b.nan THEN NaN ELSE F(a.v * b.v)

Coords == {NaN} \cup {F(n) : n \in 0 .. MaxCoord}

\* depth values of the modelled frames: in the plane z = 0, or missing
ZCoords == {NaN, F(0)}

Points == Coords \X Coords \X ZCoords

NaNPoint == <<NaN, NaN, NaN>>

\* the pixels of the modelled frame, flattened
Pixels == 1 .. 2

Clouds == [Pixels -> Points]

Radii == 0 .. MaxRadius

\* np.linalg.norm(centroid - p), squared
Radius2(centroid, p) ==
    LET d == [j \in 1 .. 3 |-> FSub(centroid[j], p[j])]
    IN  FAdd(FAdd(FMul(d[1], d[1]), FMul(d[2], d[2])), FMul(d[3], d[3]))

\* radius < threshold and radius > threshold for a threshold >= 0; a
\* comparison with NaN is false
RadiusLess(r2, threshold) == ~r2.nan /\ r2.v < threshold * threshold

RadiusGreater(r2, threshold) == ~r2.nan /\ r2.v > threshold * threshold

\* mutant: points on the two spheres are masked too
RoiInclusive(xyz_in, centroid, inner_radius_threshold, outer_radius_threshold) ==
    [xyz |-> xyz_in,
     xyz_filtered |->
        [i \in DOMAIN xyz_in |->
            LET r2 == Radius2(centroid, xyz_in[i])
            IN  IF \/ ~RadiusGreater(r2, inner_radius_threshold) /\ ~r2.nan
                   \/ ~RadiusLess(r2, outer_radius_threshold) /\ ~r2.nan
                THEN NaNPoint ELSE xyz_in[i]]]

\* _roi_between_two_spheres: the returned xyz_filtered, and the argument xyz as
\* the call leaves it (the masks are written to xyz.copy(), not to xyz)
_roi_between_two_spheres(xyz_in, centroid, inner_radius_threshold, outer_radius_threshold) ==
    LET xyz_copy == xyz_in
        radius2 == [i \in DOMAIN xyz_copy |-> Radius2(centroid, xyz_copy[i])]
        inner == [i \in DOMAIN xyz_copy |->
                    IF RadiusLess(radius2[i], inner_radius_threshold)
                    THEN NaNPoint ELSE xyz_copy[i]]
        outer == [i \in DOMAIN xyz_copy |->
                    IF RadiusGreater(radius2[i], outer_radius_threshold)
                    THEN NaNPoint ELSE inner[i]]
    IN  [xyz |-> xyz_in, xyz_filtered |-> outer]

\* mask_region = _roi_between_two_spheres(xyz, target_point, ...)
RoiCall ==
    /\ pc = "main"
    /\ UNCHANGED nonPose
    /\ UNCHANGED pickVars
    /\ \E x \in Clouds, c \in Points, inner \in Radii, outer \in Radii :
        /\ roi_args' = [xyz |-> x, centroid |-> c,
                        inner_radius_threshold |-> inner,
                        outer_radius_threshold |-> outer]
        /\ xyz' = _roi_between_two_spheres(x, c, inner, outer).xyz
        /\ mask_region' = _roi_between_two_spheres(x, c, inner, outer).xyz_filtered
    /\ pc' = "masked"
    /\ UNCHANGED <<raised, point_in_plane, scatter, u_matrix, point, transform>>

\* mutant: a point is dropped only when all its coordinates are NaN
IsNanPointAll(p) == p[1].nan /\ p[2].nan /\ p[3].nan

\* np.isnan(points).any(axis=2), for one point
IsNanPoint(p) == p[1].nan \/ p[2].nan \/ p[3].nan

KeepPoint(p) == ~IsNanPoint(p)

RECURSIVE SumPoints(_)
SumPoints(ps) ==
    IF ps = <<>> THEN <<F(0), F(0), F(0)>>
    ELSE LET rest == SumPoints(Tail(ps))
         IN  [j \in 1 .. 3 |-> FAdd(ps[1][j], rest[j])]

\* the 3x3 sum of the outer products d^T d of the rows d of ds
RECURSIVE SumOuter(_)
SumOuter(ds) ==
    IF ds = <<>> THEN [j \in 1 .. 3 |-> [k \in 1 .. 3 |-> F(0)]]
    ELSE LET rest == SumOuter(Tail(ds))
         IN  [j \in 1 .. 3 |-> [k \in 1 .. 3 |->
                 FAdd(FMul(ds[1][j], ds[1][k]), rest[j][k])]]

\* _plane_fit up to M. Quotients are kept exact: point_in_plane is num / den
\* with den the number of points (0 / 0, the mean of no points, is NaN), and M
\* is num / den with den the square of that number.
_plane_fit(points) ==
    LET points_no_nan == SelectSeq(points, KeepPoint)
        n == Len(points_no_nan)
        total == SumPoints(points_no_nan)
        distance_to_mean_point ==
            [i \in 1 .. n |-> [j \in 1 .. 3 |->
                FSub(FMul(F(n), points_no_nan[i][j]), total[j])]]
    IN  [point_in_plane |-> [num |-> total, den |-> n],
         M |-> [num |-> SumOuter(distance_to_mean_point),
                den |-> IF n = 0 THEN 1 ELSE n * n]]

\* u_matrix, point_in_plane = _plane_fit(mask_region)
PlaneFitCall ==
    /\ pc = "masked"
    /\ UNCHANGED nonPose
    /\ UNCHANGED pickVars
    /\ point_in_plane' = _plane_fit(mask_region).point_in_plane
    /\ scatter' = _plane_fit(mask_region).M
    /\ pc' = "fitted"
    /\ UNCHANGED <<raised, xyz, roi_args, mask_region, u_matrix, point, transform>>

Axis == -MaxAxis .. MaxAxis

Vectors == Axis \X Axis \X Axis

\* U matrices, as rows: the first two columns are those of the identity or
\* swapped, the third any vector
UMatrices ==
    {[r \in 1 .. 3 |-> <<a[r], b[r], n[r]>>] :
        a \in {<<1, 0, 0>>, <<0, 1, 0>>}, b \in {<<0, 1, 0>>}, n \in Vectors}

Cross(a, b) ==
    <<a[2] * b[3] - a[3] * b[2], a[3] * b[1] - a[1] * b[3], a[1] * b[2] - a[2] * b[1]>>

\* mutant: the point is written to the bottom row instead of the last column
GetTransformationTransposed(u, p) ==
    LET unit_vector == <<u[1][3], u[2][3], u[3][3]>>
        y_axis == Cross(<<1, 0, 0>>, [j \in 1 .. 3 |-> -unit_vector[j]])
        x_axis == Cross(y_axis, unit_vector)
    IN  [r \in 1 .. 4 |-> [c \in 1 .. 4 |->
            IF r = 4 /\ c <= 3 THEN p[c]
            ELSE IF r = 4 \/ c = 4 THEN F(IF r = c THEN 1 ELSE 0)
            ELSE IF c = 1 THEN F(x_axis[r])
            ELSE IF c = 2 THEN F(y_axis[r])
            ELSE F(unit_vector[r])]]

\* _get_transformation_matrix(u_matrix, point), as rows
_get_transformation_matrix(u, p) ==
    LET unit_vector == <<u[1][3], u[2][3], u[3][3]>>
        unit_x == <<1, 0, 0>>
        y_axis == Cross(unit_x, [j \in 1 .. 3 |-> -unit_vector[j]])
        x_axis == Cross(y_axis, unit_vector)
    IN  [r \in 1 .. 4 |-> [c \in 1 .. 4 |->
            IF r = 4 THEN F(IF c = 4 THEN 1 ELSE 0)
            ELSE IF c = 1 THEN F(x_axis[r])
            ELSE IF c = 2 THEN F(y_axis[r])
            ELSE IF c = 3 THEN F(unit_vector[r])
            ELSE p[r]]]

\* transform = _get_transformation_matrix(u_matrix=u_matrix, point=point)
TransformCall ==
    /\ pc = "main"
    /\ UNCHANGED nonPose
    /\ UNCHANGED pickVars
    /\ \E u \in UMatrices, p \in Points :
        /\ u_matrix' = u
        /\ point' = p
        /\ transform' = _get_transformation_matrix(u, p)
    /\ pc' = "transformed"
    /\ UNCHANGED <<raised, xyz, roi_args, mask_region, point_in_plane, scatter>>

\* the angles theta of the modelled calls are the quarter turns theta * pi / 2
Thetas == 0 .. 3

Cos(theta) == <<1, 0, -1, 0>>[theta + 1]

Sin(theta) == <<0, 1, 0, -1>>[theta + 1]

\* mutant: a rotation over the x-axis
GetXRotationMatrix(theta) ==
    <<<<F(1), F(0), F(0), F(0)>>,
      <<F(0), F(Cos(theta)), F(-Sin(theta)), F(0)>>,
      <<F(0), F(Sin(theta)), F(Cos(theta)), F(0)>>,
      <<F(0), F(0), F(0), F(1)>>>>

\* _get_z_rotation_matrix(theta), as rows
_get_z_rotation_matrix(theta) ==
    <<<<F(Cos(theta)), F(-Sin(theta)), F(0), F(0)>>,
      <<F(Sin(theta)), F(Cos(theta)), F(0), F(0)>>,
      <<F(0), F(0), F(1), F(0)>>,
      <<F(0), F(0), F(0), F(1)>>>>

\* a @ b for 4x4 matrices: every entry is the sum of the four products
MatMul(a, b) ==
    [r \in 1 .. 4 |-> [c \in 1 .. 4 |->
        FAdd(FAdd(FAdd(FMul(a[r][1], b[1][c]), FMul(a[r][2], b[2][c])),
                  FMul(a[r][3], b[3][c])),
             FMul(a[r][4], b[4][c]))]]

\* _display_point_cloud_with_coordinate_frame_on_a_point: the frame shown
\* and the pose returned
_display_point_cloud_with_coordinate_frame_on_a_point(u, p, theta) ==
    LET pose == MatMul(_get_transformation_matrix(u, p), _get_z_rotation_matrix(theta))
    IN  [shown |-> <<pose>>, returned |-> pose]

\* mutant: the pose of the modified frame is returned
OnTwoPointsReturnsModified(u, um, p, theta) ==
    LET pose == MatMul(_get_transformation_matrix(u, p), _get_z_rotation_matrix(theta))
        pose_modified ==
            MatMul(_get_transformation_matrix(um, p), _get_z_rotation_matrix(theta))
    IN  [shown |-> <<pose, pose_modified>>, returned |-> pose_modified]

\* _display_point_cloud_with_coordinate_frame_on_two_points: the two frames
\* shown and the pose returned
_display_point_cloud_with_coordinate_frame_on_two_points(u, um, p, theta) ==
    LET pose == MatMul(_get_transformation_matrix(u, p), _get_z_rotation_matrix(theta))
        pose_modified ==
            MatMul(_get_transformation_matrix(um, p), _get_z_rotation_matrix(theta))
    IN  [shown |-> <<pose, pose_modified>>, returned |-> pose]

\* the modified U matrices of the modelled calls: their third column is the
\* zero vector or the unit vector of the z-axis
ModifiedMatrices == {m \in UMatrices : m[1][3] = 0 /\ m[2][3] = 0 /\ m[3][3] \in {0, 1}}

\* picking_pose = _display_point_cloud_with_coordinate_frame_on_a_point(...)
OnAPointCall ==
    /\ pc = "transformed"
    /\ UNCHANGED nonPose
    /\ \E theta \in Thetas :
        LET call == _display_point_cloud_with_coordinate_frame_on_a_point(
                        u_matrix, point, theta)
        IN  /\ z_rotation' = theta
            /\ coord_frames' = call.shown
            /\ picking_pose' = Append(picking_pose, call.returned)
    /\ pc' = "on_a_point"
    /\ UNCHANGED <<raised, xyz, roi_args, mask_region, point_in_plane, scatter, u_matrix,
                   point, transform, u_matrix_modified>>

\* picking_pose = _display_point_cloud_with_coordinate_frame_on_two_points(...)
\* with the same u_matrix, point and z_rotation
OnTwoPointsCall ==
    /\ pc = "on_a_point"
    /\ UNCHANGED nonPose
    /\ \E um \in ModifiedMatrices :
        LET call == _display_point_cloud_with_coordinate_frame_on_two_points(
                        u_matrix, um, point, z_rotation)
        IN  /\ u_matrix_modified' = um
            /\ coord_frames' = call.shown
            /\ picking_pose' = Append(picking_pose, call.returned)
    /\ pc' = "on_two_points"
    /\ UNCHANGED <<raised, xyz, roi_args, mask_region, point_in_plane, scatter, u_matrix,
                   point, transform, z_rotation>>

InitPose ==
    /\ IdleUR
    /\ IdleAffine
    /\ IdleLive
    /\ IdlePose
    /\ IdleStitch
    /\ IdleCal
    /\ pc = "main"
    /\ raised = "none"

NextPose ==
    \/ RoiCall
    \/ PlaneFitCall
    \/ TransformCall
    \/ OnAPointCall
    \/ OnTwoPointsCall

SpecPose == InitPose /\ [][NextPose]_vars

(***************************************************************************)
(* Point clouds of the stitching scripts                                   *)
(*                                                                         *)
(* A point is known by the cloud it was read from, its index there and the *)
(* operations applied to it since, in order. The transforms that           *)
(* local_point_cloud_registration estimates are known by the number of the *)
(* registration call that gave them.                                       *)
(***************************************************************************)
\* to_unorganized_point_cloud() of frame number cap, with n points
LoadedCloud(cap, n) == [i \in 1 .. n |-> [cap |-> cap, idx |-> i, ops |-> <<>>]]

Applied(cloud, op) == [i \in DOMAIN cloud |-> [cloud[i] EXCEPT !.ops = Append(@, op)]]

\* cloud.transformed(T) with T the transform of registration k
Transformed(cloud, k) == Applied(cloud, [kind |-> "transform", k |-> k])

\* the points a voxel downsampling may return, one for each voxel it keeps:
\* points that share a voxel are merged into one; with min_points_per_voxel = 1
\* no voxel is dropped, with more the voxels may be dropped as well
RECURSIVE Drops(_, _)
Drops(S, m) ==
    IF m = 0 THEN {{}}
    ELSE Drops(S, m - 1) \cup {d \cup {x} : d \in Drops(S, m - 1), x \in S}

KeptChoices(cloud, min_points_per_voxel) ==
    LET merged == {DOMAIN cloud \ d : d \in Drops(DOMAIN cloud, MaxMerged)}
    IN  IF min_points_per_voxel <= 1
        THEN {kept \in merged : cloud # <<>> => kept # {}}
        ELSE merged \cup {{}}

RECURSIVE Restrict(_, _)
Restrict(cloud, kept) ==
    IF cloud = <<>> THEN <<>>
    ELSE LET n == Len(cloud)
             front == Restrict(SubSeq(cloud, 1, n - 1), kept)
         IN  IF n \in kept THEN Append(front, cloud[n]) ELSE front

\* cloud.voxel_downsampled(voxel_size, ...) that kept the points kept;
\* size100 is 100 * voxel_size
VoxelDownsampled(cloud, size100, kept) ==
    Applied(Restrict(cloud, kept), [kind |-> "voxel", k |-> size100])

\* one call of local_point_cloud_registration
Registration(target, source, initial_transform, converged) ==
    [target |-> target, source |-> source, initial_transform |-> initial_transform,
     converged |-> converged]

(***************************************************************************)
(* stitch_via_local_point_cloud_registration.py                            *)
(***************************************************************************)
\* the not stitched clouds are shown first
DisplayBefore ==
    /\ pc = "display_before"
    /\ UNCHANGED nonStitch
    /\ UNCHANGED stitchLoopVars
    /\ displayed' = Append(displayed, clouds[1] \o clouds[2])
    /\ pc' = "downsample"
    /\ UNCHANGED <<raised, clouds, lpcr, registrations, stitched>>

\* unorganized_point_cloud_{1,2}_lpcr = ....voxel_downsampled(1.0, 3)
DownsampleForRegistration ==
    /\ pc = "downsample"
    /\ UNCHANGED nonStitch
    /\ UNCHANGED stitchLoopVars
    /\ \E k1 \in KeptChoices(clouds[1], 3), k2 \in KeptChoices(clouds[2], 3) :
        lpcr' = <<VoxelDownsampled(clouds[1], 100, k1),
                  VoxelDownsampled(clouds[2], 100, k2)>>
    /\ pc' = "register"
    /\ UNCHANGED <<raised, clouds, registrations, stitched, displayed>>

\* local_point_cloud_registration(target=..._1_lpcr, source=..._2_lpcr) and
\* the assertion on converged()
RegisterTwo ==
    /\ pc = "register"
    /\ UNCHANGED nonStitch
    /\ UNCHANGED stitchLoopVars
    /\ \E converged \in BOOLEAN :
        /\ registrations' =
              Append(registrations, Registration(lpcr[1], lpcr[2], 0, converged))
        /\ IF converged THEN pc' = "stitch" /\ raised' = raised
           ELSE pc' = "raised" /\ raised' = "Registration did not converge..."
    /\ UNCHANGED <<clouds, lpcr, stitched, displayed>>

\* mutant: the clouds stitched are the downsampled copies
StitchedTwoFromLpcr == lpcr[1] \o Transformed(lpcr[2], Len(registrations))

\* final_point_cloud after the two extend calls
StitchedTwo == clouds[1] \o Transformed(clouds[2], Len(registrations))

StitchTwo ==
    /\ pc = "stitch"
    /\ UNCHANGED nonStitch
    /\ UNCHANGED stitchLoopVars
    /\ stitched' = StitchedTwo
    /\ displayed' = Append(displayed, stitched')
    /\ pc' = "final_downsample"
    /\ UNCHANGED <<raised, clouds, lpcr, registrations>>

\* final_point_cloud = final_point_cloud.voxel_downsampled(0.5, 1)
FinalDownsampleTwo ==
    /\ pc = "final_downsample"
    /\ UNCHANGED nonStitch
    /\ UNCHANGED stitchLoopVars
    /\ \E kept \in KeptChoices(stitched, 1) :
        stitched' = VoxelDownsampled(stitched, 50, kept)
    /\ displayed' = Append(displayed, stitched')
    /\ pc' = "done"
    /\ UNCHANGED <<raised, clouds, lpcr, registrations>>

IdleAll ==
    /\ IdleUR
    /\ IdleAffine
    /\ IdleLive
    /\ IdlePose

\* the two frames are read and converted
InitStitch2 ==
    /\ IdleAll
    /\ IdleCal
    /\ pc = "display_before"
    /\ raised = "none"
    /\ \E n1 \in 0 .. MaxPoints, n2 \in 0 .. MaxPoints :
        clouds = <<LoadedCloud(1, n1), LoadedCloud(2, n2)>>
    /\ lpcr = <<>>
    /\ registrations = <<>>
    /\ stitched = <<>>
    /\ displayed = <<>>
    /\ i_capture = 0
    /\ exported = <<>>
    /\ previous_to_current_point_cloud_transform = 0

NextStitch2 ==
    \/ DisplayBefore
    \/ DownsampleForRegistration
    \/ RegisterTwo
    \/ StitchTwo
    \/ FinalDownsampleTwo

SpecStitch2 == InitStitch2 /\ [][NextStitch2]_vars

(***************************************************************************)
(* stitch_via_local_point_cloud_registration_shoes.py                      *)
(***************************************************************************)
\* the messages of the assertions on 02.zdf .. 05.zdf, by capture number
AssertionMessages ==
    <<"none", "Registration for 02.zdf", "Registration for 03.zdf",
      "Registration for 04.zdf", "Registration for 05.zdf">>

\* mutant: the merged cloud is left at full resolution
MergedNotDownsampled(cloud, source, k, kept) == cloud \o Transformed(source, k)

\* stitched_point_cloud after extend(source.transformed(transform)) and
\* voxel_downsampled(voxel_size=1.0, min_points_per_voxel=1)
Merged(cloud, source, k, kept) ==
    VoxelDownsampled(cloud \o Transformed(source, k), 100, kept)

\* mutant: the target is the capture before the source
ShoeTargetPrevious(i) == clouds[i]

\* target_lpcr of the registration of unorganized_point_clouds[i]
ShoeTarget(i) == stitched

\* one registration and its assertion; capture is the number of the source
ShoeRegister(target, capture, next) ==
    \E converged \in BOOLEAN :
        /\ registrations' =
              Append(registrations, Registration(target, clouds[capture], 0, converged))
        /\ IF converged THEN pc' = next /\ raised' = raised
           ELSE pc' = "raised" /\ raised' = AssertionMessages[capture]

\* 01.zdf starts the stitched cloud and 02.zdf is registered against 01.zdf
RegisterFirst ==
    /\ pc = "first_register"
    /\ UNCHANGED nonStitch
    /\ stitched' = clouds[1]
    /\ ShoeRegister(clouds[1], 2, "first_merge")
    /\ UNCHANGED <<clouds, lpcr, displayed, stitchLoopVars>>

MergeFirst ==
    /\ pc = "first_merge"
    /\ UNCHANGED nonStitch
    /\ \E kept \in KeptChoices(stitched \o clouds[2], 1) :
        stitched' = Merged(stitched, clouds[2], Len(registrations), kept)
    /\ displayed' = Append(displayed, stitched')
    /\ i_capture' = 2
    /\ pc' = "loop"
    /\ UNCHANGED <<raised, clouds, lpcr, registrations, exported,
                   previous_to_current_point_cloud_transform>>

\* for i in range(2, 5): the registration of unorganized_point_clouds[i]
LoopRegister ==
    /\ pc = "loop"
    /\ i_capture < NumShoeFiles
    /\ UNCHANGED nonStitch
    /\ ShoeRegister(ShoeTarget(i_capture), i_capture + 1, "merge")
    /\ UNCHANGED <<clouds, lpcr, stitched, displayed, stitchLoopVars>>

LoopMerge ==
    /\ pc = "merge"
    /\ UNCHANGED nonStitch
    /\ \E kept \in KeptChoices(stitched \o clouds[i_capture + 1], 1) :
        stitched' = Merged(stitched, clouds[i_capture + 1], Len(registrations), kept)
    /\ displayed' = Append(displayed, stitched')
    /\ i_capture' = i_capture + 1
    /\ pc' = "loop"
    /\ UNCHANGED <<raised, clouds, lpcr, registrations, exported,
                   previous_to_current_point_cloud_transform>>

\* the loop is over: the stitched cloud is shown
DisplayAfter ==
    /\ pc = "loop"
    /\ i_capture >= NumShoeFiles
    /\ UNCHANGED nonStitch
    /\ displayed' = Append(displayed, stitched)
    /\ pc' = "final"
    /\ UNCHANGED <<raised, clouds, lpcr, registrations, stitched, stitchLoopVars>>

\* final_point_cloud = stitched_point_cloud.voxel_downsampled(0.5, 1), shown
\* and exported
ExportShoes ==
    /\ pc = "final"
    /\ UNCHANGED nonStitch
    /\ \E kept \in KeptChoices(stitched, 1) :
        LET final_point_cloud == VoxelDownsampled(stitched, 50, kept)
        IN  /\ displayed' = Append(displayed, final_point_cloud)
            /\ exported' = Append(exported, [file |-> "StitchedPointCloudOfShoes.ply",
                                             cloud |-> final_point_cloud])
    /\ pc' = "done"
    /\ UNCHANGED <<raised, clouds, lpcr, registrations, stitched, i_capture,
                   previous_to_current_point_cloud_transform>>

\* the five frames are read and converted; each capture is followed through
\* the run as one point
InitShoes ==
    /\ IdleAll
    /\ IdleCal
    /\ pc = "first_register"
    /\ raised = "none"
    /\ clouds = [c \in 1 .. NumShoeFiles |-> LoadedCloud(c, 1)]
    /\ lpcr = <<>>
    /\ registrations = <<>>
    /\ stitched = <<>>
    /\ displayed = <<>>
    /\ i_capture = 0
    /\ exported = <<>>
    /\ previous_to_current_point_cloud_transform = 0

NextShoes ==
    \/ RegisterFirst
    \/ MergeFirst
    \/ LoopRegister
    \/ LoopMerge
    \/ DisplayAfter
    \/ ExportShoes

SpecShoes == InitShoes /\ [][NextShoes]_vars

(***************************************************************************)
(* stitch_continuously_capture_visulaize.py                                *)
(*                                                                         *)
(* i_capture is number_of_captures. The transform of the registration of   *)
(* capture k is known as k, np.eye(4) as 0. Each capture is followed       *)
(* through the run as one point.                                           *)
(***************************************************************************)
\* camera.capture_2d_3d(settings) converted and voxel_downsampled(1.0, 2)
CapturedCloud(number_of_captures) ==
    VoxelDownsampled(LoadedCloud(number_of_captures, 1), 100, {1})

Failures == Cardinality({k \in 1 .. Len(registrations) : ~registrations[k].converged})

\* mutant: the stitched cloud is mapped by the transform, not by its inverse
StitchedAfterForward(cloud, k) ==
    Applied(stitched, [kind |-> "transform", k |-> k]) \o cloud

\* unorganized_stitched_point_cloud after transform(np.linalg.inv(T_k)) and
\* extend(unorganized_point_cloud)
StitchedAfter(cloud, k) ==
    Applied(stitched, [kind |-> "inverse", k |-> k]) \o cloud

\* number_of_captures = 0: the capture is added without registration
CaptureFirst ==
    /\ pc = "capture"
    /\ i_capture = 0
    /\ UNCHANGED nonStitch
    /\ clouds' = Append(clouds, CapturedCloud(i_capture))
    /\ stitched' = stitched \o CapturedCloud(i_capture)
    /\ displayed' = <<stitched'>>
    /\ i_capture' = i_capture + 1
    /\ UNCHANGED <<pc, raised, lpcr, registrations, exported,
                   previous_to_current_point_cloud_transform>>

\* a later capture whose registration converged
CaptureAndStitch ==
    /\ pc = "capture"
    /\ i_capture # 0
    /\ i_capture < NumCaptures
    /\ UNCHANGED nonStitch
    /\ clouds' = Append(clouds, CapturedCloud(i_capture))
    /\ registrations' =
          Append(registrations,
                 Registration(stitched, CapturedCloud(i_capture),
                              previous_to_current_point_cloud_transform, TRUE))
    /\ previous_to_current_point_cloud_transform' = i_capture
    /\ stitched' = StitchedAfter(CapturedCloud(i_capture), i_capture)
    /\ displayed' = <<stitched'>>
    /\ i_capture' = i_capture + 1
    /\ UNCHANGED <<pc, raised, lpcr, exported>>

\* mutant: the capture is added although its registration did not converge
CaptureDiscardedAdded ==
    /\ pc = "capture"
    /\ i_capture # 0
    /\ i_capture < NumCaptures
    /\ Failures < MaxFailures
    /\ UNCHANGED nonStitch
    /\ clouds' = Append(clouds, CapturedCloud(i_capture))
    /\ registrations' =
          Append(registrations,
                 Registration(stitched, CapturedCloud(i_capture),
                              previous_to_current_point_cloud_transform, FALSE))
    /\ stitched' = stitched \o CapturedCloud(i_capture)
    /\ i_capture' = i_capture + 1
    /\ UNCHANGED <<pc, raised, lpcr, displayed, exported,
                   previous_to_current_point_cloud_transform>>

\* a later capture whose registration did not converge: continue
CaptureDiscarded ==
    /\ pc = "capture"
    /\ i_capture # 0
    /\ i_capture < NumCaptures
    /\ Failures < MaxFailures
    /\ UNCHANGED nonStitch
    /\ clouds' = Append(clouds, CapturedCloud(i_capture))
    /\ registrations' =
          Append(registrations,
                 Registration(stitched, CapturedCloud(i_capture),
                              previous_to_current_point_cloud_transform, FALSE))
    /\ i_capture' = i_capture + 1
    /\ UNCHANGED <<pc, raised, lpcr, stitched, displayed, exported,
                   previous_to_current_point_cloud_transform>>

\* after the loop: voxel_downsampled(0.75, 2), shown and exported
ExportContinuous ==
    /\ pc = "capture"
    /\ i_capture >= NumCaptures
    /\ UNCHANGED nonStitch
    /\ \E kept \in KeptChoices(stitched, 2) :
        stitched' = VoxelDownsampled(stitched, 75, kept)
    /\ displayed' = <<stitched'>>
    /\ exported' = Append(exported, [file |-> "StitchedPointCloudOfRotatingObject.ply",
                                     cloud |-> stitched'])
    /\ pc' = "done"
    /\ UNCHANGED <<raised, clouds, lpcr, registrations, i_capture,
                   previous_to_current_point_cloud_transform>>

InitContinuous ==
    /\ IdleAll
    /\ IdleCal
    /\ pc = "capture"
    /\ raised = "none"
    /\ clouds = <<>>
    /\ lpcr = <<>>
    /\ registrations = <<>>
    /\ stitched = <<>>
    /\ displayed = <<>>
    /\ i_capture = 0
    /\ exported = <<>>
    /\ previous_to_current_point_cloud_transform = 0

NextContinuous ==
    \/ CaptureFirst
    \/ CaptureAndStitch
    \/ CaptureDiscarded
    \/ ExportContinuous

SpecContinuous == InitContinuous /\ [][NextContinuous]_vars

(***************************************************************************)
(* multicam_cal.py                                                         *)
(*                                                                         *)
(* The points of img_test_XX.zdf moved by transforms[i] are known as the   *)
(* block [file |-> XX, transform |-> i]; stitched_rgb grows with           *)
(* stitched_xyz, block by block.                                           *)
(***************************************************************************)
\* mutant: a detection that is not valid is appended like a valid one
LoadFileUnchecked ==
    /\ pc = "load"
    /\ idata \in zdf_files
    /\ UNCHANGED nonCal
    /\ calibration_inputs' = Append(calibration_inputs, idata)
    /\ idata' = idata + 1
    /\ UNCHANGED <<pc, raised>>
    /\ UNCHANGED <<zdf_files, valid_files, test_files, results, transforms, i_transform,
                   stitched_xyz, stitched_point_cloud>>

\* one round of the while loop on a file that exists
LoadFile ==
    /\ pc = "load"
    /\ idata \in zdf_files
    /\ UNCHANGED nonCal
    /\ IF idata \in valid_files
       THEN /\ calibration_inputs' = Append(calibration_inputs, idata)
            /\ idata' = idata + 1
            /\ UNCHANGED <<pc, raised>>
       ELSE /\ pc' = "raised"
            /\ raised' = "RuntimeError: Failed to detect feature points"
            /\ UNCHANGED <<calibration_inputs, idata>>
    /\ UNCHANGED <<zdf_files, valid_files, test_files, results, transforms, i_transform,
                   stitched_xyz, stitched_point_cloud>>

\* the file does not exist: break
LoadBreak ==
    /\ pc = "load"
    /\ idata \notin zdf_files
    /\ UNCHANGED nonCal
    /\ pc' = "calibrate"
    /\ UNCHANGED <<raised, calVars>>

\* calibrate_multi_camera; transforms is assigned only if the result is true;
\* idata is reset and range(len(transforms)) is evaluated
Calibrate ==
    /\ pc = "calibrate"
    /\ UNCHANGED nonCal
    /\ \E valid \in BOOLEAN :
        IF valid
        THEN /\ results' = "valid"
             /\ transforms' = Bound([k \in 1 .. Len(calibration_inputs) |-> k - 1])
             /\ pc' = "stitch"
             /\ raised' = raised
        ELSE /\ results' = "not valid"
             /\ transforms' = transforms
             /\ pc' = "raised"
             /\ raised' = "UnboundLocalError: transforms"
    /\ idata' = 1
    /\ i_transform' = 0
    /\ UNCHANGED <<zdf_files, valid_files, test_files, calibration_inputs, stitched_xyz,
                   stitched_point_cloud>>

\* mutant: the file counter moves on only when the file was read
SkipFileKeepCounter ==
    /\ pc = "stitch"
    /\ i_transform < Len(transforms.v)
    /\ idata \notin test_files
    /\ UNCHANGED nonCal
    /\ i_transform' = i_transform + 1
    /\ UNCHANGED <<pc, raised, zdf_files, valid_files, test_files, idata,
                   calibration_inputs, results, transforms, stitched_xyz,
                   stitched_point_cloud>>

\* one round of the for loop on a file that does not exist
SkipFile ==
    /\ pc = "stitch"
    /\ i_transform < Len(transforms.v)
    /\ idata \notin test_files
    /\ UNCHANGED nonCal
    /\ idata' = idata + 1
    /\ i_transform' = i_transform + 1
    /\ UNCHANGED <<pc, raised, zdf_files, valid_files, test_files, calibration_inputs,
                   results, transforms, stitched_xyz, stitched_point_cloud>>

\* one round of the for loop on a file that exists: its points are moved by
\* transforms[i] and start (i = 0) or extend (i > 0) stitched_xyz
StitchFile ==
    /\ pc = "stitch"
    /\ i_transform < Len(transforms.v)
    /\ idata \in test_files
    /\ UNCHANGED nonCal
    /\ LET block == [file |-> idata, transform |-> transforms.v[i_transform + 1]]
       IN  IF i_transform = 0
           THEN /\ stitched_xyz' = Bound(<<block>>)
                /\ idata' = idata + 1
                /\ i_transform' = i_transform + 1
                /\ UNCHANGED <<pc, raised>>
           ELSE IF stitched_xyz.bound
           THEN /\ stitched_xyz' = Bound(Append(stitched_xyz.v, block))
                /\ idata' = idata + 1
                /\ i_transform' = i_transform + 1
                /\ UNCHANGED <<pc, raised>>
           ELSE /\ pc' = "raised"
                /\ raised' = "UnboundLocalError: stitched_xyz"
                /\ UNCHANGED <<stitched_xyz, idata, i_transform>>
    /\ UNCHANGED <<zdf_files, valid_files, test_files, calibration_inputs, results,
                   transforms, stitched_point_cloud>>

\* after the loop: stitched_point_cloud.points = ...(stitched_xyz), shown
AssignPoints ==
    /\ pc = "stitch"
    /\ i_transform >= Len(transforms.v)
    /\ UNCHANGED nonCal
    /\ IF stitched_xyz.bound
       THEN /\ stitched_point_cloud' = stitched_xyz.v
            /\ pc' = "done"
            /\ raised' = raised
       ELSE /\ stitched_point_cloud' = stitched_point_cloud
            /\ pc' = "raised"
            /\ raised' = "UnboundLocalError: stitched_xyz"
    /\ UNCHANGED <<zdf_files, valid_files, test_files, idata, calibration_inputs, results,
                   transforms, i_transform, stitched_xyz>>

InitCal ==
    /\ IdleAll
    /\ IdleStitch
    /\ pc = "load"
    /\ raised = "none"
    /\ zdf_files \in SUBSET (1 .. MaxFiles)
    /\ valid_files \in SUBSET zdf_files
    /\ test_files \in SUBSET (1 .. MaxFiles)
    /\ idata = 1
    /\ calibration_inputs = <<>>
    /\ results = "none"
    /\ transforms = UnboundLocal
    /\ i_transform = 0
    /\ stitched_xyz = UnboundLocal
    /\ stitched_point_cloud = <<>>

NextCal ==
    \/ LoadFile
    \/ LoadBreak
    \/ Calibrate
    \/ SkipFile
    \/ StitchFile
    \/ AssignPoints

SpecCal == InitCal /\ [][NextCal]_vars

(***************************************************************************)
(* Claims about universal_robots_comm_test.py                              *)
(***************************************************************************)
InitOps ==
    <<"connect", "negotiate_protocol_version", "send_output_setup",
      "send_input_setup", "send_start">>

InitPcs == {"connect", "negotiate", "output_setup", "input_setup", "start"}

InitMsg(op) ==
    CASE op = "negotiate_protocol_version" -> "Protocol do not match"
      [] op = "send_output_setup" -> "Unable to configure output"
      [] op = "send_start" -> "Unable to start synchronization"
      [] OTHER -> "none"

RuntimeErrors ==
    {"Protocol do not match", "Unable to configure output",
     "Unable to start synchronization"}

Min(a, b) == IF a < b THEN a ELSE b

\* _initialize_robot_sync has returned con, robot_input_data
InitReturned == pc \notin InitPcs /\ raised \notin RuntimeErrors

\* C1: _initialize_robot_sync calls connect, negotiate_protocol_version,
\* send_output_setup, send_input_setup, send_start in that order; the first of
\* negotiate / output setup / start that reports failure raises its
\* RuntimeError and is the last call made; the function returns only when all
\* three reported success.
C1_InitOrderAndRaise ==
    /\ \A i \in 1 .. Min(Len(trace), 5) :
        /\ trace[i].op = InitOps[i]
        /\ ~trace[i].ret =>
            /\ Len(trace) = i
            /\ pc = "raised"
            /\ raised = InitMsg(InitOps[i])
            /\ raised \in RuntimeErrors
    /\ raised \in RuntimeErrors =>
        /\ pc = "raised"
        /\ Len(trace) \in 2 .. 5
        /\ ~trace[Len(trace)].ret
    /\ InitReturned =>
        /\ Len(trace) >= 5
        /\ \A i \in 1 .. 5 : trace[i].ret

C1_Witness ==
    /\ pc = "raised"
    /\ raised = "Unable to configure output"
    /\ Len(trace) = 3
    /\ trace[2].ret /\ ~trace[3].ret

\* the script is in the main loop or past it
MainLoopPcs == {"main_loop", "read", "log", "key", "write_finish"}

AfterLoopPcs == {"save_csv", "write_final", "pause", "disconnect", "done"}

PastWait == pc \in MainLoopPcs \cup AfterLoopPcs \/ log_data # <<>>

SendIdx == {i \in 1 .. Len(trace) : trace[i].op = "send"}

ReceiveIdx == {i \in 1 .. Len(trace) : trace[i].op = "receive" /\ trace[i].ret}

\* C2: before the wait starts the PC has sent ready_to_record=True with
\* finish_test=False (its first send), and the main loop is entered only after
\* some received robot state had output_bit_register_64 true.
C2_ReadyHandshake ==
    /\ (pc = "wait" \/ PastWait) =>
        /\ SendIdx # {}
        /\ \A i \in SendIdx :
            (\A j \in SendIdx : i <= j) =>
                /\ trace[i].bit65 /\ ~trace[i].bit64
                /\ Cardinality({r \in 1 .. i : trace[r].op = "receive"}) = 1
    /\ PastWait => \E i \in ReceiveIdx : trace[i].bit64

C2_Witness ==
    /\ pc = "main_loop"
    /\ Cardinality(ReceiveIdx) >= 3
    /\ \E i \in ReceiveIdx : trace[i].bit64 /\ \E j \in SendIdx : j < i

\* what follows the main loop, in order
Cleanup == <<"to_csv", "send", "send_pause", "disconnect">>

CleanupDone ==
    CASE pc = "save_csv" -> 0
      [] pc = "write_final" -> 1
      [] pc = "pause" -> 2
      [] pc = "disconnect" -> 3
      [] pc = "done" -> 4
      [] OTHER -> 0

\* C3: whichever way the main loop ended (loop count -1, 's' key,
\* KeyboardInterrupt), what follows is, in this order and each once: the csv
\* write, a send with finish_test=False and ready_to_record=False, send_pause,
\* disconnect; none of the steps can be skipped, and when the script is done
\* the last state sent to the robot has both bits false.
C3_CleanupOrder ==
    /\ pc \in AfterLoopPcs <=> exit_cause \in {"loop_count", "s_key", "KeyboardInterrupt"}
    /\ pc \in AfterLoopPcs =>
        LET k == CleanupDone
            n == Len(trace)
        IN  /\ n >= k
            /\ \A i \in 1 .. k : trace[n - k + i].op = Cleanup[i]
            /\ k >= 2 => ~trace[n - k + 2].bit64 /\ ~trace[n - k + 2].bit65
            /\ \A i \in 1 .. n - k :
                trace[i].op \notin {"to_csv", "send_pause", "disconnect"}
            /\ csv_file.written <=> k >= 1
            /\ csv_file.written => csv_file.rows = log_data
            /\ pc # "done" => ENABLED NextUR
    /\ pc = "done" =>
        \A i \in SendIdx : (\A j \in SendIdx : j <= i) => ~trace[i].bit64 /\ ~trace[i].bit65

C3_Witness ==
    /\ pc = "done"
    /\ exit_cause = "s_key"
    /\ \E i \in SendIdx : trace[i].bit64

FinishIdx == {i \in SendIdx : trace[i].bit64}

\* C4: a state with finish_test=True is sent only when the 's' key ended the
\* main loop, then exactly once, with ready_to_record=False, right after the
\* read of that iteration, and no robot state is read after it.
C4_StopSignal ==
    /\ Cardinality(FinishIdx) = (IF exit_cause = "s_key" THEN 1 ELSE 0)
    /\ \A i \in FinishIdx :
        /\ ~trace[i].bit65
        /\ i > 1 /\ trace[i - 1].op = "receive" /\ trace[i - 1].ret
        /\ \A j \in i + 1 .. Len(trace) : trace[j].op # "receive"
        /\ log_data # <<>>
    /\ exit_cause = "s_key" => log_data # <<>>

C4_Witness ==
    /\ exit_cause = "s_key"
    /\ pc = "done"
    /\ Len(log_data) >= 2

\* the received state that ended the ready wait: the first with bit 64 true
ReadyIdx == {i \in ReceiveIdx : trace[i].bit64 /\ \A j \in ReceiveIdx : j < i => ~trace[j].bit64}

\* C5 as stated: once a state with output_int_register_24 = -1 has been
\* received, no further robot state is read.
C5_Original ==
    \A i \in ReceiveIdx :
        trace[i].int24 = -1 => \A j \in i + 1 .. Len(trace) : trace[j].op # "receive"

\* C5 amended: from the state that ended the ready wait on, once a state with
\* loop count -1 has been received no further robot state is read; the log
\* holds at most one entry with loop_count -1, which is then its last entry,
\* and it is empty when the state that ended the wait already had loop count -1.
C5_LoopCountEnds ==
    /\ \A r \in ReadyIdx : \A i \in ReceiveIdx :
        (i >= r /\ trace[i].int24 = -1) =>
            \A j \in i + 1 .. Len(trace) : trace[j].op # "receive"
    /\ \A i \in 1 .. Len(log_data) : log_data[i] = -1 => i = Len(log_data)
    /\ \A r \in ReadyIdx : trace[r].int24 = -1 => log_data = <<>>
    /\ exit_cause = "loop_count" =>
        \/ log_data # <<>> /\ log_data[Len(log_data)] = -1
        \/ log_data = <<>> /\ \E r \in ReadyIdx : trace[r].int24 = -1

C5_Witness ==
    /\ pc = "done"
    /\ exit_cause = "loop_count"
    /\ Len(log_data) >= 2
    /\ log_data[Len(log_data)] = -1
    /\ \E i \in ReceiveIdx : trace[i].int24 = -1 /\ \A r \in ReadyIdx : i < r

(***************************************************************************)
(* Claims about 4x4 Matrix_from_XYZRxRyRz_ZYZ.py                           *)
(***************************************************************************)
\* the calls of assert_affine_matrix_and_save that have returned or raised
AffineCallsEnded == IF pc = "save" THEN Len(pose_checks) - 1 ELSE Len(pose_checks)

\* C6: assert_affine_matrix_and_save writes the matrix to yaml_path exactly
\* when the construction of zivid.calibration.Pose succeeded; when it raised
\* RuntimeError the call raises RuntimeError("matrix is not affine") and the
\* file at yaml_path is as it was before.
C6_SaveIffAffine ==
    /\ \A k \in 1 .. NumPoses :
        yaml_files[k] =
            IF k <= AffineCallsEnded /\ pose_checks[k] THEN k ELSE yaml_before[k]
    /\ i_value = Cardinality({k \in 1 .. AffineCallsEnded : pose_checks[k]})
    /\ (\E k \in 1 .. Len(pose_checks) : ~pose_checks[k]) <=>
            (pc = "raised" /\ raised = "matrix is not affine")
    /\ pc = "raised" => Len(pose_checks) = i_value + 1 /\ ~pose_checks[i_value + 1]

C6_Witness ==
    /\ pc = "raised"
    /\ raised = "matrix is not affine"
    /\ pose_checks = <<TRUE, FALSE>>
    /\ yaml_before = <<0, 3, 0>>
    /\ yaml_files = <<1, 3, 0>>

(***************************************************************************)
(* Claims about capture_2d_live_stream.py                                  *)
(***************************************************************************)
\* C7: _set_sampling_pixel sets settings.sampling.pixel to blueSubsample2x2
\* for zividTwo, zividTwoL100, zivid2PlusM130, zivid2PlusM60, zivid2PlusL110,
\* to by2x2 for zivid2PlusMR130, zivid2PlusMR60, zivid2PlusLR110, and raises
\* ValueError for every other model with settings.sampling.pixel unchanged;
\* _main makes no 2D capture when it raised.
C7_SamplingPixel ==
    pc # "set_sampling_pixel" =>
        /\ camera_model \in
              {"zividTwo", "zividTwoL100", "zivid2PlusM130", "zivid2PlusM60",
               "zivid2PlusL110"} =>
                 sampling_pixel = "blueSubsample2x2" /\ raised = "none"
        /\ camera_model \in {"zivid2PlusMR130", "zivid2PlusMR60", "zivid2PlusLR110"} =>
                 sampling_pixel = "by2x2" /\ raised = "none"
        /\ camera_model \notin
              {"zividTwo", "zividTwoL100", "zivid2PlusM130", "zivid2PlusM60",
               "zivid2PlusL110", "zivid2PlusMR130", "zivid2PlusMR60",
               "zivid2PlusLR110"} =>
                 /\ pc = "raised"
                 /\ raised = "Unhandled enum value"
                 /\ sampling_pixel = pixel_before
                 /\ captures = 0 /\ frames_held = 0
                 /\ ~ENABLED NextLive
        /\ raised # "none" => captures = 0

C7_Witness ==
    /\ pc = "raised"
    /\ camera_model = "zividOnePlusMedium"
    /\ sampling_pixel = "redSubsample2x2"
    /\ pixel_before = "redSubsample2x2"

(***************************************************************************)
(* Claims about pose_estimation_test.py                                    *)
(***************************************************************************)
Finite(p) == ~p[1].nan /\ ~p[2].nan /\ ~p[3].nan

\* the squared distance of two points without NaN
Dist2(a, b) ==
    (a[1].v - b[1].v) * (a[1].v - b[1].v) + (a[2].v - b[2].v) * (a[2].v - b[2].v)
        + (a[3].v - b[3].v) * (a[3].v - b[3].v)

\* the distance of p to the centroid is a number and lies strictly inside the
\* inner sphere or strictly outside the outer one
OutsideRoi(p, a) ==
    /\ Finite(p)
    /\ Finite(a.centroid)
    /\ \/ Dist2(p, a.centroid) < a.inner_radius_threshold * a.inner_radius_threshold
       \/ Dist2(p, a.centroid) > a.outer_radius_threshold * a.outer_radius_threshold

\* C8: _roi_between_two_spheres returns an array of the shape of xyz in which a
\* point is NaN in all coordinates exactly when its distance to the centroid is
\* smaller than inner_radius_threshold or larger than outer_radius_threshold;
\* every other point (one at distance equal to a threshold included) is the
\* point of xyz; the caller's xyz is as it was passed.
C8_RoiBetweenTwoSpheres ==
    pc \in {"masked", "fitted"} =>
        /\ DOMAIN mask_region = DOMAIN roi_args.xyz
        /\ \A i \in DOMAIN mask_region :
            mask_region[i] =
                IF OutsideRoi(roi_args.xyz[i], roi_args) THEN NaNPoint
                ELSE roi_args.xyz[i]
        /\ xyz = roi_args.xyz

\* a point on the outer sphere and the centroid itself (inner radius 0) are
\* kept, a point outside is masked
C8_Witness ==
    /\ pc = "masked"
    /\ roi_args.inner_radius_threshold = 0
    /\ roi_args.outer_radius_threshold = 1
    /\ roi_args.centroid = <<F(0), F(0), F(0)>>
    /\ xyz = <<<<F(0), F(0), F(0)>>, <<F(1), F(0), F(0)>>>>
    /\ mask_region = xyz

C9_UnitVector == <<u_matrix[1][3], u_matrix[2][3], u_matrix[3][3]>>

\* C9: _get_transformation_matrix returns a 4x4 matrix whose rows 0-2 of
\* column 2 are the third column of u_matrix, whose rows 0-2 of column 3 are
\* point, and whose bottom row is [0, 0, 0, 1].
C9_TransformationMatrix ==
    pc = "transformed" =>
        /\ DOMAIN transform = 1 .. 4
        /\ \A r \in 1 .. 4 : DOMAIN transform[r] = 1 .. 4
        /\ \A r \in 1 .. 3 : transform[r][3] = F(C9_UnitVector[r])
        /\ \A r \in 1 .. 3 : transform[r][4] = point[r]
        /\ transform[4] = <<F(0), F(0), F(0), F(1)>>

C9_Witness ==
    /\ pc = "transformed"
    /\ C9_UnitVector = <<1, -1, 1>>
    /\ point = <<F(1), F(0), NaN>>
    /\ transform[1][4] = F(1)
    /\ transform[2][3] = F(-1)

\* the pixels of the fitted array whose three coordinates are all numbers
C10_Used == {i \in DOMAIN mask_region : Finite(mask_region[i])}

RECURSIVE C10_Sum(_, _, _)
C10_Sum(S, j, k) ==
    IF S = {} THEN 0
    ELSE LET i == CHOOSE x \in S : TRUE
         IN  (IF k = 0 THEN mask_region[i][j].v
              ELSE mask_region[i][j].v * mask_region[i][k].v) + C10_Sum(S \ {i}, j, k)

\* C10: _plane_fit uses exactly the points whose three coordinates are all
\* non-NaN: point_in_plane is the sum of these points divided by their number,
\* and M is the scatter matrix of these points about that mean (with n points,
\* sums S and sums of products Q: n*n*M[j][k] = n*n*Q[j][k] - n*S[j]*S[k]);
\* points with a NaN coordinate enter neither.
C10_PlaneFitIgnoresNaN ==
    pc = "fitted" =>
        LET n == Cardinality(C10_Used)
        IN  /\ point_in_plane.den = n
            /\ \A j \in 1 .. 3 : point_in_plane.num[j] = F(C10_Sum(C10_Used, j, 0))
            /\ scatter.den = (IF n = 0 THEN 1 ELSE n * n)
            /\ \A j \in 1 .. 3 : \A k \in 1 .. 3 :
                scatter.num[j][k] =
                    F(n * n * C10_Sum(C10_Used, j, k)
                        - n * C10_Sum(C10_Used, j, 0) * C10_Sum(C10_Used, k, 0))

\* one point with a NaN coordinate beside a point without: only the latter is
\* used
C10_Witness ==
    /\ pc = "fitted"
    /\ mask_region = <<<<F(1), NaN, F(0)>>, <<F(1), F(1), F(0)>>>>
    /\ point_in_plane = [num |-> <<F(1), F(1), F(0)>>, den |-> 1]

(***************************************************************************)
(* Claims about stitch_via_local_point_cloud_registration.py               *)
(***************************************************************************)
Max2(a, b) == IF a >= b THEN a ELSE b

HasOp(p, kind) == \E j \in 1 .. Len(p.ops) : p.ops[j].kind = kind

\* C11: the stitched cloud is built and displayed only if the registration
\* converged, otherwise the run ends at the assertion "Registration did not
\* converge..."; the stitched cloud is point cloud 1 unchanged followed by
\* point cloud 2 transformed by the estimated transform, both at full
\* resolution although the registration ran on voxel-downsampled copies, so
\* before the final downsample it holds as many points as the two clouds
\* together.
C11_StitchTwoClouds ==
    /\ Len(registrations) <= 1
    /\ (stitched # <<>> \/ Len(displayed) >= 2 \/ pc \in {"final_downsample", "done"}) =>
        Len(registrations) = 1 /\ registrations[1].converged
    /\ (Len(registrations) = 1 /\ ~registrations[1].converged) =>
        /\ pc = "raised"
        /\ raised = "Registration did not converge..."
        /\ stitched = <<>>
        /\ Len(displayed) = 1
    /\ Len(registrations) = 1 =>
        /\ \A i \in 1 .. Len(registrations[1].target) :
            registrations[1].target[i].cap = 1 /\ HasOp(registrations[1].target[i], "voxel")
        /\ \A i \in 1 .. Len(registrations[1].source) :
            registrations[1].source[i].cap = 2 /\ HasOp(registrations[1].source[i], "voxel")
    /\ Len(displayed) >= 2 =>
        LET built == displayed[2]
            n1 == Len(clouds[1])
            n2 == Len(clouds[2])
        IN  /\ Len(built) = n1 + n2
            /\ \A i \in 1 .. n1 : built[i] = clouds[1][i]
            /\ \A i \in 1 .. n2 :
                built[n1 + i] =
                    [cap |-> 2, idx |-> i, ops |-> <<[kind |-> "transform", k |-> 1]>>]
            /\ pc = "final_downsample" => stitched = built

C11_Witness ==
    /\ pc = "done"
    /\ Len(clouds[1]) = 2 /\ Len(clouds[2]) = 2
    /\ Len(registrations[1].target) = 1
    /\ Len(registrations[1].source) = 0
    /\ Len(displayed[2]) = 4

(***************************************************************************)
(* Claims about stitch_via_local_point_cloud_registration_shoes.py         *)
(***************************************************************************)
AllConverged == \A k \in 1 .. Len(registrations) : registrations[k].converged

\* C12: the captures 02..05 are registered and merged in file order, each
\* against the accumulated result of all earlier captures; the first
\* registration that does not converge ends the run at its assertion, so no
\* later capture is registered or merged, and StitchedPointCloudOfShoes.ply is
\* written only when all four registrations converged.
C12_ShoesInOrder ==
    /\ Len(registrations) <= NumShoeFiles - 1
    /\ \A k \in 1 .. Len(registrations) :
        /\ registrations[k].source = clouds[k + 1]
        /\ k < Len(registrations) => registrations[k].converged
    /\ Len(registrations) >= 1 => registrations[1].target = clouds[1]
    /\ \A k \in 1 .. Len(registrations) - 1 :
        \E kept \in KeptChoices(registrations[k].target \o clouds[k + 1], 1) :
            registrations[k + 1].target =
                VoxelDownsampled(registrations[k].target \o Transformed(clouds[k + 1], k),
                                 100, kept)
    /\ ~AllConverged =>
        /\ pc = "raised"
        /\ raised = AssertionMessages[Len(registrations) + 1]
        /\ exported = <<>>
        /\ \A j \in 1 .. Len(stitched) : stitched[j].cap <= Len(registrations)
    /\ \A j \in 1 .. Len(stitched) : stitched[j].cap <= Len(registrations) + 1
    /\ exported # <<>> =>
        /\ Len(registrations) = NumShoeFiles - 1
        /\ AllConverged
        /\ Len(exported) = 1
        /\ exported[1].file = "StitchedPointCloudOfShoes.ply"
    /\ pc = "done" => exported # <<>>

C12_Witness ==
    /\ pc = "done"
    /\ Len(registrations) = NumShoeFiles - 1
    /\ Len(registrations[NumShoeFiles - 1].target) = NumShoeFiles - 1
    /\ exported # <<>>

Added == {0} \cup {k \in 1 .. Len(registrations) : registrations[k].converged}

RECURSIVE Ascending(_)
Ascending(S) ==
    IF S = {} THEN <<>>
    ELSE LET m == CHOOSE x \in S : \A y \in S : x <= y
         IN  <<m>> \o Ascending(S \ {m})

\* the last converged registration before capture k, 0 if there is none
LastConverged(k) ==
    LET S == {j \in 1 .. k - 1 : registrations[j].converged}
    IN  IF S = {} THEN 0 ELSE CHOOSE x \in S : \A y \in S : y <= x

\* C13: exactly 20 captures are taken; capture 0 is added without
\* registration; a later capture whose registration does not converge is
\* discarded, leaving the stitched cloud and the stored transform unchanged,
\* and the loop goes on; after the loop the stitched cloud holds capture 0
\* plus exactly the captures whose registration converged.
C13_DiscardNotConverged ==
    /\ i_capture <= NumCaptures
    /\ Len(clouds) = i_capture
    /\ i_capture >= 1 => Len(registrations) = i_capture - 1
    /\ i_capture >= 1 /\ pc = "capture" =>
        /\ Len(stitched) = Cardinality(Added)
        /\ \A n \in 1 .. Len(stitched) : stitched[n].cap = Ascending(Added)[n]
    /\ \A k \in 1 .. Len(registrations) :
        ~registrations[k].converged =>
            /\ k < Len(registrations) =>
                /\ registrations[k + 1].target = registrations[k].target
                /\ registrations[k + 1].initial_transform =
                       registrations[k].initial_transform
            /\ k = Len(registrations) /\ pc = "capture" =>
                /\ stitched = registrations[k].target
                /\ previous_to_current_point_cloud_transform =
                       registrations[k].initial_transform
    /\ pc = "done" => i_capture = NumCaptures
    /\ exported # <<>> => Len(clouds) = NumCaptures

C13_Witness ==
    /\ pc = "capture"
    /\ i_capture = NumCaptures
    /\ Len(stitched) = NumCaptures - 1
    /\ ~registrations[2].converged

\* C16: after each converged registration with transform T_k every point
\* already stitched is mapped by inverse(T_k) and the new capture is added
\* untransformed; T_k is the initial transform of the next registration
\* (identity before the first); so a point of capture j has been mapped by
\* inverse(T_k) for exactly the converged registrations k > j, in increasing
\* order of k, and the capture added last is untransformed.
C16_InverseChain ==
    /\ \A k \in 1 .. Len(registrations) :
        registrations[k].initial_transform = LastConverged(k)
    /\ previous_to_current_point_cloud_transform = LastConverged(Len(registrations) + 1)
    /\ pc = "capture" =>
        \A n \in 1 .. Len(stitched) :
            LET p == stitched[n]
                later == Ascending({k \in Added : k > p.cap})
            IN  /\ Len(p.ops) = 1 + Len(later)
                /\ p.ops[1] = [kind |-> "voxel", k |-> 100]
                /\ \A m \in 1 .. Len(later) :
                    p.ops[1 + m] = [kind |-> "inverse", k |-> later[m]]
    /\ pc = "capture" /\ stitched # <<>> =>
        stitched[Len(stitched)] = CapturedCloud(LastConverged(Len(registrations) + 1))[1]

C16_Witness ==
    /\ pc = "capture"
    /\ i_capture = NumCaptures
    /\ ~registrations[NumCaptures - 1].converged
    /\ Len(stitched[1].ops) = NumCaptures - 1

(***************************************************************************)
(* Claims about multicam_cal.py                                            *)
(***************************************************************************)
\* the first index whose imgXX.zdf is missing
FirstMissing == CHOOSE k \in 1 .. MaxFiles + 1 :
    /\ k \notin zdf_files
    /\ \A j \in 1 .. k - 1 : j \in zdf_files

\* the files read before the first missing one whose detection is not valid
InvalidRead == {k \in 1 .. FirstMissing - 1 : k \notin valid_files}

\* C14: the input loop reads img01.zdf, img02.zdf, ... in increasing index
\* order and stops at the first index whose file is missing; it raises
\* RuntimeError at the first frame whose detection is not valid, before
\* calibrate_multi_camera is called; otherwise calibration_inputs holds one
\* detection result per file read, in index order.
C14_CalibrationInputs ==
    /\ \A k \in 1 .. Len(calibration_inputs) :
        calibration_inputs[k] = k /\ k \in valid_files /\ k < FirstMissing
    /\ pc = "load" => Len(calibration_inputs) = idata - 1 /\ idata <= FirstMissing
    /\ raised = "RuntimeError: Failed to detect feature points" =>
        /\ InvalidRead # {}
        /\ idata \in InvalidRead
        /\ \A k \in InvalidRead : idata <= k
        /\ Len(calibration_inputs) = idata - 1
        /\ results = "none"
    /\ (pc = "calibrate" \/ results # "none") =>
        /\ InvalidRead = {}
        /\ Len(calibration_inputs) = FirstMissing - 1
    /\ InvalidRead # {} => results = "none" /\ pc \in {"load", "raised"}

C14_Witness ==
    /\ raised = "RuntimeError: Failed to detect feature points"
    /\ idata = 2
    /\ calibration_inputs = <<1>>
    /\ 3 \in zdf_files

\* C17: in the stitching loop transforms[i] is applied only to
\* img_test_{i+1:02d}.zdf: the file counter is i+1 at the start of every
\* iteration, also after an iteration whose file was missing, and at most
\* len(transforms) test files are read.
C17_CounterFollowsIndex ==
    /\ pc = "stitch" => idata = i_transform + 1 /\ i_transform <= Len(transforms.v)
    /\ \A n \in 1 .. Len(stitched_xyz.v) :
        /\ stitched_xyz.v[n].file = stitched_xyz.v[n].transform + 1
        /\ stitched_xyz.v[n].file \in test_files
        /\ stitched_xyz.v[n].file <= Len(transforms.v)
    /\ Len(stitched_xyz.v) <= Len(transforms.v)

C17_Witness ==
    /\ pc = "stitch"
    /\ test_files = {1, 3}
    /\ i_transform = 3
    /\ Len(stitched_xyz.v) = 2

\* the blocks of the img_test_XX.zdf files that exist among 1 .. n, in index
\* order, each moved by the transform of its index
RECURSIVE PresentBlocks(_)
PresentBlocks(n) ==
    IF n = 0 THEN <<>>
    ELSE IF n \in test_files
         THEN Append(PresentBlocks(n - 1), [file |-> n, transform |-> n - 1])
         ELSE PresentBlocks(n - 1)

\* C18 as stated: for every pattern of present and missing img_test_XX.zdf
\* files with at least one present among the first len(transforms) indices,
\* the stitching loop completes and the stitched point set is the
\* concatenation, in index order, of the transformed points of the present
\* files.
C18_Original ==
    (transforms.bound /\ test_files \cap (1 .. Len(transforms.v)) # {}) =>
        /\ pc # "raised"
        /\ pc = "done" => stitched_point_cloud = PresentBlocks(Len(transforms.v))

\* what the loop does: it completes with that concatenation when
\* img_test_01.zdf exists, and raises on the first existing file otherwise
C18_FirstFileNeeded ==
    transforms.bound =>
        /\ 1 \in test_files /\ Len(transforms.v) >= 1 =>
            /\ pc # "raised"
            /\ pc = "done" => stitched_point_cloud = PresentBlocks(Len(transforms.v))
        /\ pc = "raised" =>
            /\ raised = "UnboundLocalError: stitched_xyz"
            /\ 1 \notin test_files \/ Len(transforms.v) = 0
        /\ pc = "done" => 1 \in test_files /\ Len(transforms.v) >= 1

C18_FailingInput ==
    /\ raised = "UnboundLocalError: stitched_xyz"
    /\ test_files = {2}
    /\ Len(transforms.v) = 2
    /\ i_transform = 1

(***************************************************************************)
(* Claims about the picking pose of pose_estimation_test.py                *)
(***************************************************************************)
\* C19: _display_point_cloud_with_coordinate_frame_on_two_points returns the
\* pose of the frame built from u_matrix, point and z_rotation; the pose does
\* not depend on u_matrix_modified and equals the pose
\* _display_point_cloud_with_coordinate_frame_on_a_point returns for the same
\* u_matrix, point and z_rotation, so the two picking poses of main are equal.
C19_SamePickingPose ==
    pc = "on_two_points" =>
        /\ Len(picking_pose) = 2
        /\ picking_pose[2] = picking_pose[1]
        /\ picking_pose[2] =
              MatMul(_get_transformation_matrix(u_matrix, point),
                     _get_z_rotation_matrix(z_rotation))

C19_Witness ==
    /\ pc = "on_two_points"
    /\ Finite(point)
    /\ u_matrix[1][3] = 1
    /\ coord_frames[2] # coord_frames[1]
    /\ picking_pose[2] = coord_frames[1]

\* C20 as stated: the pose has the Z-axis column, the translation column and
\* the bottom row [0, 0, 0, 1] of transform for every theta, and for
\* theta = 0 the pose equals transform.
C20_Original ==
    pc = "on_a_point" =>
        /\ \A r \in 1 .. 4 : picking_pose[1][r][3] = transform[r][3]
        /\ \A r \in 1 .. 4 : picking_pose[1][r][4] = transform[r][4]
        /\ picking_pose[1][4] = <<F(0), F(0), F(0), F(1)>>
        /\ z_rotation = 0 => picking_pose[1] = transform

\* C20 (amended): the statement holds for every theta when no coordinate of
\* point is NaN; the bottom row is [0, 0, 0, 1] always; a row of transform
\* whose translation entry is NaN is NaN in all four columns of the pose,
\* its Z-axis entry included, also for theta = 0.
C20_PoseKeepsZAndTranslation ==
    pc = "on_a_point" =>
        /\ picking_pose[1][4] = <<F(0), F(0), F(0), F(1)>>
        /\ \A r \in 1 .. 3 :
            IF point[r].nan
            THEN picking_pose[1][r] = <<NaN, NaN, NaN, NaN>>
            ELSE /\ picking_pose[1][r][3] = transform[r][3]
                 /\ picking_pose[1][r][4] = transform[r][4]
                 /\ z_rotation = 0 => picking_pose[1][r] = transform[r]
        /\ Finite(point) /\ z_rotation = 0 => picking_pose[1] = transform

C20_Witness ==
    /\ pc = "on_a_point"
    /\ Finite(point)
    /\ z_rotation = 1
    /\ picking_pose[1][1][1] # transform[1][1]
    /\ transform[1][3] = F(1)
    /\ transform[1][4] = F(1)

(***************************************************************************)
(* Claims about the frame of _get_transformation_matrix                    *)
(***************************************************************************)
\* rows 0-2 of column c of transform; its entries there are numbers
C21_Column(c) == <<transform[1][c + 1].v, transform[2][c + 1].v, transform[3][c + 1].v>>

Dot(a, b) == a[1] * b[1] + a[2] * b[2] + a[3] * b[3]

C21_Orthogonal ==
    /\ Dot(C21_Column(0), C21_Column(2)) = 0
    /\ Dot(C21_Column(1), C21_Column(2)) = 0
    /\ Dot(C21_Column(0), C21_Column(1)) = 0

\* Z cross X is k * Y for a number k >= 0; k is the squared length of Z
C21_RightHanded ==
    LET k == Dot(C21_Column(2), C21_Column(2))
    IN  /\ k >= 0
        /\ Cross(C21_Column(2), C21_Column(0)) = [j \in 1 .. 3 |-> k * C21_Column(1)[j]]

C21_Nonzero ==
    /\ C21_Column(0) # <<0, 0, 0>>
    /\ C21_Column(1) # <<0, 0, 0>>

\* C21 as stated: for every normal vector taken from u_matrix, the X-axis and
\* Y-axis columns of the matrix are orthogonal to the Z-axis column and to
\* each other, form a right-handed frame with it and are nonzero vectors.
C21_Original ==
    (pc = "transformed" /\ C9_UnitVector # <<0, 0, 0>>) =>
        /\ C21_Orthogonal
        /\ C21_RightHanded
        /\ C21_Nonzero

\* what the function does: the columns are always orthogonal and
\* right-handed, and the X-axis and Y-axis columns are both zero exactly when
\* the normal vector lies on the x-axis
C21_DegenerateAlongX ==
    pc = "transformed" =>
        /\ C21_Orthogonal
        /\ C21_RightHanded
        /\ C21_Nonzero <=> (C9_UnitVector[2] # 0 \/ C9_UnitVector[3] # 0)
        /\ (C9_UnitVector[2] = 0 /\ C9_UnitVector[3] = 0) =>
            C21_Column(0) = <<0, 0, 0>> /\ C21_Column(1) = <<0, 0, 0>>

C21_FailingInput ==
    /\ pc = "transformed"
    /\ C9_UnitVector = <<1, 0, 0>>
    /\ C21_Column(0) = <<0, 0, 0>>
    /\ C21_Column(1) = <<0, 0, 0>>
    /\ C21_Column(2) = <<1, 0, 0>>

(***************************************************************************)
(* Claims about a failed read of universal_robots_comm_test.py             *)
(***************************************************************************)
FailedReceiveIdx == {i \in 1 .. Len(trace) : trace[i].op = "receive" /\ ~trace[i].ret}

\* C22: when con.receive() returns None at any read, _read_robot_state fails
\* its assertion and never returns None to its caller; inside _comm_test the
\* run then ends with that AssertionError: ur_rtde_joint_log.csv is not
\* written, the final state with finish_test=False and ready_to_record=False
\* is not sent, and send_pause and disconnect are not called.
C22_FailedReadEndsRun ==
    /\ robot_state \in RobotStates \cup {Unbound}
    /\ \A i \in FailedReceiveIdx :
        /\ i = Len(trace)
        /\ pc = "raised"
        /\ raised = "Not able to receive robot_state"
    /\ raised = "Not able to receive robot_state" =>
        /\ FailedReceiveIdx = {Len(trace)}
        /\ pc = "raised"
        /\ ~ENABLED NextUR
        /\ ~csv_file.written
        /\ exit_cause \notin {"loop_count", "s_key", "KeyboardInterrupt"}
        /\ \A i \in 1 .. Len(trace) :
            /\ trace[i].op \notin {"to_csv", "send_pause", "disconnect"}
            /\ trace[i].op = "send" => trace[i].bit64 \/ trace[i].bit65

C22_Witness ==
    /\ raised = "Not able to receive robot_state"
    /\ Len(log_data) >= 1
    /\ \E i \in SendIdx : trace[i].bit65
    /\ Len(trace) \in FailedReceiveIdx

(***************************************************************************)
(* Claims about the loop of the two 2D live-stream scripts                 *)
(***************************************************************************)
\* the run is one of capture_2d_live_stream_before_sdk214.py
C23_BeforeSdk214 == sampling_pixel = "None" /\ pc \in {"capture", "show", "done"}

\* C23: both scripts capture frames in a loop that ends only when the key
\* read after showing a frame has low byte 27 (ESC); every captured frame is
\* released before the next capture starts, so at most one frame is held at
\* any time, and the frame in which ESC is read is the last one captured.
C23_LiveLoop ==
    /\ frames_held \in {0, 1}
    /\ pc = "show" <=> frames_held = 1
    /\ pc = "show" => captures >= 1
    /\ pc = "capture" => frames_held = 0 /\ (captures >= 1 => key % 256 # 27)
    /\ pc = "done" =>
        /\ key % 256 = 27
        /\ captures >= 1
        /\ frames_held = 0
        /\ ~ENABLED NextLive
    /\ pc \in {"capture", "show"} /\ captures < MaxCaptures => ENABLED NextLive
    /\ pc = "show" => ENABLED ShowAndWaitKey

C23_Witness ==
    /\ C23_BeforeSdk214
    /\ camera_model \in OtherModels
    /\ pc = "done"
    /\ key = 27 + 256
    /\ captures = 2

====
